---- MODULE Spec2Model ----
(***************************************************************************)
(* Model of neo/io/axonaio.py: the Axona dataset reader.                   *)
(*                                                                         *)
(* Five specifications share the module:                                   *)
(*   SpecScan     parse_header_and_leave_cursor / parse_params, byte level *)
(*   SpecTrailer  assert_end_of_data, byte level                           *)
(*   SpecTrack    the coordinate decoding of read_tracking                 *)
(*   Spec         AxonaIO: __init__, read_spiketrain, read_tracking,       *)
(*                read_analogsignal, read_block over a dataset directory   *)
(*   SpecFiles    the same methods statement by statement, with the files  *)
(*                they open and close, over damaged companion files        *)
(* Text is a sequence of one-character strings; a byte decoded as latin-1  *)
(* is one character, so bytes and characters are not distinguished.        *)
(***************************************************************************)
EXTENDS Integers, Sequences, FiniteSets, TLC

VARIABLES
    fh_data,    \* the bytes of the file behind file_handle
    fh_pos,     \* the read cursor of file_handle: number of bytes consumed
    header,     \* parse_header_and_leave_cursor: the local `header`
    remaining_data, \* assert_end_of_data: the local `remaining_data`
    pc,         \* where the function under study stands
    out,        \* what it returned or raised
    fs,         \* the dataset directory: the root file and its companions
    self,       \* the AxonaIO object, once constructed
    call,       \* the last call made on it and how it ended
    frame,      \* the method that is running, statement by statement
    opened,     \* the files that are open
    io_log      \* the files the running method opened and closed, in order

byteVars == <<fh_data, fh_pos, header, remaining_data, pc, out>>
objVars == <<fs, self, call>>
ioVars == <<frame, opened, io_log>>
vars == <<fh_data, fh_pos, header, remaining_data, pc, out, fs, self, call,
          frame, opened, io_log>>

\* ------------------------------------------------------------------ text

NoValue == [kind |-> "unset"]
PyNone == [kind |-> "None"]

Whitespace == {" ", "\t", "\n", "\r"}
Digits == {"0", "1", "2", "3", "4", "5", "6", "7", "8", "9"}

DigitVal(c) ==
    CASE c = "0" -> 0 [] c = "1" -> 1 [] c = "2" -> 2 [] c = "3" -> 3
      [] c = "4" -> 4 [] c = "5" -> 5 [] c = "6" -> 6 [] c = "7" -> 7
      [] c = "8" -> 8 [] c = "9" -> 9

Min(a, b) == IF a < b THEN a ELSE b

\* s[i..] of Python: the text from 0-based index i on
From(s, i) == SubSeq(s, i + 1, Len(s))

\* s[-n:] of Python
Last(s, n) == IF Len(s) <= n THEN s ELSE SubSeq(s, Len(s) - n + 1, Len(s))

RECURSIVE LStrip(_)
LStrip(s) ==
    IF s # <<>> /\ Head(s) \in Whitespace THEN LStrip(Tail(s)) ELSE s

RECURSIVE RStrip(_)
RStrip(s) ==
    IF s # <<>> /\ s[Len(s)] \in Whitespace
    THEN RStrip(SubSeq(s, 1, Len(s) - 1)) ELSE s

\* str.strip()
Strip(s) == RStrip(LStrip(s))

\* position (1-based) of the first occurrence of character c in s, 0 if none
RECURSIVE IndexOf(_, _, _)
IndexOf(s, c, i) ==
    IF i > Len(s) THEN 0
    ELSE IF s[i] = c THEN i ELSE IndexOf(s, c, i + 1)

\* text.split("\n"): the pieces between newlines, empty pieces included
RECURSIVE SplitLines(_)
SplitLines(s) ==
    LET k == IndexOf(s, "\n", 1) IN
    IF k = 0 THEN <<s>>
    ELSE <<SubSeq(s, 1, k - 1)>> \o SplitLines(From(s, k))

\* line.split(" ", 1): at most two pieces, cut at the first space
SplitFirstSpace(line) ==
    LET k == IndexOf(line, " ", 1) IN
    IF k = 0 THEN <<line>>
    ELSE <<SubSeq(line, 1, k - 1), From(line, k)>>

\* whether sub occurs in s
Contains(s, sub) ==
    \E k \in 0..(Len(s) - Len(sub)) : SubSeq(s, k + 1, k + Len(sub)) = sub

\* ------------------------------------------------- int(...) and float(...)

\* digits with single underscores between them (the body of an int literal)
RECURSIVE IsDigitRun(_, _)
IsDigitRun(s, afterDigit) ==
    IF s = <<>> THEN afterDigit
    ELSE IF Head(s) \in Digits THEN IsDigitRun(Tail(s), TRUE)
    ELSE IF Head(s) = "_" THEN afterDigit /\ Tail(s) # <<>>
                               /\ Head(Tail(s)) \in Digits
                               /\ IsDigitRun(Tail(s), FALSE)
    ELSE FALSE

RECURSIVE DigitRunVal(_, _)
DigitRunVal(s, acc) ==
    IF s = <<>> THEN acc
    ELSE IF Head(s) = "_" THEN DigitRunVal(Tail(s), acc)
    ELSE DigitRunVal(Tail(s), acc * 10 + DigitVal(Head(s)))

Unsigned(s) == IF s # <<>> /\ Head(s) \in {"+", "-"} THEN Tail(s) ELSE s
Sign(s) == IF s # <<>> /\ Head(s) = "-" THEN -1 ELSE 1

\* int(s) succeeds
IsIntLiteral(s) == IsDigitRun(Unsigned(Strip(s)), FALSE)
IntVal(s) == Sign(Strip(s)) * DigitRunVal(Unsigned(Strip(s)), 0)

\* float(s) succeeds, for the decimal forms  [sign] digits [. [digits]]  and
\* [sign] . digits  (exponents, inf and nan are not written by the inputs)
IsFloatLiteral(s) ==
    LET u == Unsigned(Strip(s))
        k == IndexOf(u, ".", 1)
        ip == IF k = 0 THEN u ELSE SubSeq(u, 1, k - 1)
        fp == IF k = 0 THEN <<>> ELSE From(u, k)
    IN /\ ip # <<>> \/ fp # <<>>
       /\ ip = <<>> \/ IsDigitRun(ip, FALSE)
       /\ fp = <<>> \/ IsDigitRun(fp, FALSE)

RECURSIVE DropZeros(_)
DropZeros(s) ==
    IF s # <<>> /\ s[Len(s)] = "0" THEN DropZeros(SubSeq(s, 1, Len(s) - 1))
    ELSE s

\* the float as mantissa and number of decimals: mant / 10^decimals
FloatVal(s) ==
    LET u == Unsigned(Strip(s))
        k == IndexOf(u, ".", 1)
        ip == IF k = 0 THEN u ELSE SubSeq(u, 1, k - 1)
        fp == DropZeros(SelectSeq(IF k = 0 THEN <<>> ELSE From(u, k),
                                  LAMBDA c : c # "_"))
    IN [kind |-> "float",
        mant |-> Sign(Strip(s)) * DigitRunVal(ip \o fp, 0),
        decimals |-> Len(fp)]

PyInt(n) == [kind |-> "int", val |-> n]
PyStr(s) == [kind |-> "str", val |-> s]

\* lines 49-56: int, else float, else the text itself
parse_value(s) ==
    IF IsIntLiteral(s) THEN PyInt(IntVal(s))
    ELSE IF IsFloatLiteral(s) THEN FloatVal(s)
    ELSE PyStr(s)

\* ------------------------------------------------------------ parse_params

EmptyDict == [k \in {} |-> NoValue]

\* d[k] = v of a Python dict
DictPut(d, k, v) ==
    [x \in (DOMAIN d) \cup {k} |-> IF x = k THEN v ELSE d[x]]

\* body of the loop of parse_params for one line
parse_line(params, rawline) ==
    LET line == Strip(rawline)
        line_splitted == SplitFirstSpace(line)
        name == line_splitted[1]
    IN IF Len(line) = 0 THEN params
       ELSE IF Len(line_splitted) > 1
            THEN DictPut(params, name, parse_value(line_splitted[2]))
            ELSE DictPut(params, name, PyNone)

RECURSIVE parse_lines(_, _)
parse_lines(params, lines) ==
    IF lines = <<>> THEN params
    ELSE parse_lines(parse_line(params, Head(lines)), Tail(lines))

parse_params(text) == parse_lines(EmptyDict, SplitLines(text))

\* ------------------------------------------------------------ exceptions

Exc(type, msg) == [kind |-> "exc", type |-> type, msg |-> msg]

\* a str value built for a message, as the sequence of its pieces
Text(pieces) == [kind |-> "text", pieces |-> pieces]
FileObject == [kind |-> "file"]

\* a + b of Python on str operands; anything else cannot be concatenated
PyAdd(a, b) ==
    IF a.kind = "exc" THEN a
    ELSE IF a.kind = "text" /\ b.kind = "text" THEN Text(a.pieces \o b.pieces)
    ELSE Exc("TypeError", <<"can only concatenate str (not ", b.kind, ") to str">>)

Returned(v) == [kind |-> "returned", val |-> v]

\* ------------------------------------------- parse_header_and_leave_cursor

search_string == <<"d", "a", "t", "a", "_", "s", "t", "a", "r", "t">>
search_string_text == "data_start"

\* lines 68-69: the raise statement; its argument is evaluated first
raise_eof_error(file_handle) ==
    LET m == PyAdd(PyAdd(PyAdd(PyAdd(Text(<<"Hit end of file '">>), file_handle),
                               Text(<<"'' before '">>)),
                         Text(<<search_string_text>>)),
                   Text(<<"' found.">>))
    IN IF m.kind = "exc" THEN m ELSE Exc("IOError", m.pieces)

\* file_handle.read(1)
read1(data, pos) == IF pos < Len(data) THEN <<data[pos + 1]>> ELSE <<>>

\* whether the scan has found the sentinel (line 71)
found_sentinel(h) == Last(h, Len(search_string)) = search_string

\* one iteration of the while loop (lines 62-72) and, on break, lines 74-76
parse_header_step ==
    /\ pc = "scan"
    /\ LET byte == read1(fh_data, fh_pos)
           h == header \o byte
       IN /\ fh_pos' = fh_pos + Len(byte)
          /\ header' = h
          /\ IF byte = <<>>
             THEN pc' = "raised" /\ out' = raise_eof_error(FileObject)
             ELSE IF found_sentinel(h)
                  THEN pc' = "returned" /\ out' = Returned(parse_params(h))
                  ELSE pc' = "scan" /\ out' = out
    /\ UNCHANGED <<fh_data, remaining_data>>

\* ------------------------------------------------------ assert_end_of_data

data_end == <<"d", "a", "t", "a", "_", "e", "n", "d">>

\* np.fromfile(f, dtype, count): consumes up to n bytes of payload
fromfile(n) ==
    /\ pc = "payload"
    /\ fh_pos' = Min(fh_pos + n, Len(fh_data))
    /\ pc' = "trailer"
    /\ UNCHANGED <<fh_data, header, remaining_data, out>>

\* the comparison without the strip()
trailer_matches_unstripped(remaining) == remaining = data_end

\* line 81: the asserted condition
trailer_matches(remaining) == Strip(remaining) = data_end

\* lines 79-81
assert_end_of_data ==
    /\ pc = "trailer"
    /\ remaining_data' = From(fh_data, fh_pos)
    /\ fh_pos' = Len(fh_data)
    /\ IF trailer_matches(remaining_data')
       THEN pc' = "returned" /\ out' = Returned(PyNone)
       ELSE pc' = "raised" /\ out' = Exc("AssertionError", <<>>)
    /\ UNCHANGED <<fh_data, header>>

\* ----------------------------------------------------- byte-level inputs

MaxHeaderLines == 2   \* lines of header text before the sentinel
MaxPad == 2           \* whitespace characters on either side of the trailer
MaxPayload == 2       \* payload bytes between the header and the trailer

\* every sequence over S of length at most n
RECURSIVE SeqsUpTo(_, _)
SeqsUpTo(S, n) ==
    IF n = 0 THEN {<<>>}
    ELSE LET shorter == SeqsUpTo(S, n - 1)
         IN shorter \cup {<<x>> \o t : x \in S, t \in {u \in shorter : Len(u) = n - 1}}

RECURSIVE Join(_, _)
Join(lines, sep) ==
    IF lines = <<>> THEN <<>>
    ELSE IF Len(lines) = 1 THEN Head(lines)
    ELSE Head(lines) \o sep \o Join(Tail(lines), sep)

HeaderLinePool ==
    { <<"f", "o", "o", " ", "1">>,
      <<"b", "a", "r", " ", "2">>,
      <<"b", "a", "z">>,
      <<"r", " ", "1", ".", "5">>,
      <<"u", " ", "5", "0", " ", "h", "z">> }

\* header texts H: lines joined by newlines, with or without a final newline
HeaderTexts ==
    { Join(ls, <<"\n">>) \o tail :
        ls \in SeqsUpTo(HeaderLinePool, MaxHeaderLines), tail \in {<<>>, <<"\n">>} }

PayloadTexts == { <<"X", "Y", "Z">>, <<>> }

Prefixes(s) == { SubSeq(s, 1, n) : n \in 0..Len(s) }

\* complete files H ++ "data_start" ++ P and every truncation of them
ScanInputs ==
    UNION { Prefixes(h \o search_string \o p) : h \in HeaderTexts, p \in PayloadTexts }

TrailerBodies ==
    { data_end,
      <<"d", "a", "t", "a", "_", "e", "n", "c">>,
      <<"d", "a", "t", "a", "_", "e", "n">>,
      <<"d", "a", "t", "a", " ", "_", "e", "n", "d">>,
      <<"d", "a", "t", "a", "_", "e", "n", "d", "x">>,
      <<"x", "d", "a", "t", "a", "_", "e", "n", "d">>,
      <<>> }

Pads == SeqsUpTo({" ", "\n"}, MaxPad)

\* what follows the header: payload bytes, then a padded trailer
TrailerInputs ==
    { p \o a \o b \o c :
        p \in SeqsUpTo({"X"}, MaxPayload), a \in Pads, b \in TrailerBodies, c \in Pads }

Init_Scan ==
    /\ fh_data \in ScanInputs
    /\ fh_pos = 0
    /\ header = <<>>
    /\ remaining_data = <<>>
    /\ pc = "scan"
    /\ out = NoValue
    /\ fs = NoValue /\ self = NoValue /\ call = NoValue
    /\ frame = NoValue /\ opened = {} /\ io_log = <<>>

Next_Scan == parse_header_step /\ UNCHANGED objVars /\ UNCHANGED ioVars

SpecScan == Init_Scan /\ [][Next_Scan]_vars

Init_Trailer ==
    /\ fh_data \in TrailerInputs
    /\ fh_pos = 0
    /\ header = <<>>
    /\ remaining_data = <<>>
    /\ pc = "payload"
    /\ out = NoValue
    /\ fs = NoValue /\ self = NoValue /\ call = NoValue
    /\ frame = NoValue /\ opened = {} /\ io_log = <<>>

Next_Trailer ==
    \/ (\E n \in 0..MaxPayload : fromfile(n)) /\ UNCHANGED objVars
                                             /\ UNCHANGED ioVars
    \/ assert_end_of_data /\ UNCHANGED objVars /\ UNCHANGED ioVars

SpecTrailer == Init_Trailer /\ [][Next_Trailer]_vars

\* ------------------------------------------------- byte-level properties

\* The Python exceptions that signal malformed data (the FormatError class of
\* the design): a failed assert, a failed dictionary lookup, an IOError.
FormatErrorTypes == {"IOError", "AssertionError", "KeyError"}

NamesSentinel(e) == \E i \in 1..Len(e.msg) : e.msg[i] = search_string_text

\* C1: for a source H ++ "data_start" ++ P with no "data_start" inside H, the
\* scanner returns exactly the key/value pairs of the lines of H, no other
\* key, and leaves the cursor at the first byte of P.
C1_HeaderScanExact ==
    \A k \in 0..(Len(fh_data) - Len(search_string)) :
        ( /\ pc = "returned"
          /\ SubSeq(fh_data, k + 1, k + Len(search_string)) = search_string
          /\ ~Contains(SubSeq(fh_data, 1, k), search_string) )
        => /\ out = Returned(parse_params(SubSeq(fh_data, 1, k)))
           /\ fh_pos = k + Len(search_string)

\* C5: when the source is exhausted before the sentinel has been read, the
\* scanner fails with a FormatError whose message names the sentinel, and
\* returns no parameter block.
C5_EofRaisesFormatError ==
    ( /\ pc # "scan"
      /\ ~Contains(fh_data, search_string) )
    => /\ pc = "raised"
       /\ out.kind = "exc"
       /\ out.type \in FormatErrorTypes
       /\ NamesSentinel(out)

\* r is "data_end" with nothing but whitespace around it
IsPaddedDataEnd(r) ==
    \E a \in 0..(Len(r) - Len(data_end)) :
        /\ SubSeq(r, a + 1, a + Len(data_end)) = data_end
        /\ \A i \in 1..Len(r) :
              (i <= a \/ i > a + Len(data_end)) => r[i] \in Whitespace

\* C6: assert_end_of_data succeeds exactly when the bytes remaining after the
\* payload, trimmed of surrounding whitespace, are "data_end"; on any other
\* remainder it fails with a FormatError.
C6_TrailerExact ==
    pc \in {"returned", "raised"}
    => /\ \E k \in 0..Len(fh_data) : remaining_data = From(fh_data, k)
       /\ (pc = "returned") <=> IsPaddedDataEnd(remaining_data)
       /\ pc = "returned" => out = Returned(PyNone)
       /\ pc = "raised" => out.kind = "exc" /\ out.type \in FormatErrorTypes

\* a padded trailer has been accepted
C6_Witness ==
    /\ pc = "returned"
    /\ Len(remaining_data) > Len(data_end)
    /\ Len(remaining_data) < Len(fh_data)

\* =========================================================================
\* The dataset level.  A binary companion file is held by what the byte-level
\* functions make of it: whether its header ends in the sentinel, the
\* parameter block of its header, its payload records, and whether what
\* follows the declared payload is the trailer.  File names are held by
\* their extension, a text; the directory and base name are the same for
\* every file of a dataset.
\* =========================================================================

Range(f) == { f[x] : x \in DOMAIN f }

\* d[k] of a Python dict
Lookup(d, k) == IF k \in DOMAIN d THEN d[k] ELSE Exc("KeyError", <<k>>)

\* d.get(k, default)
Get(d, k, default) == IF k \in DOMAIN d THEN d[k] ELSE default

\* the text "<num> <unit>", which parse_params keeps as a str
PyQty(num, unit) == [kind |-> "str", num |-> num, unit |-> unit]

\* d[k] of a Python dict keyed by integers
LookupInt(d, k) == IF k \in DOMAIN d THEN d[k] ELSE Exc("KeyError", <<ToString(k)>>)

\* float(v) and int(v) of a parsed value (the inputs write whole numbers)
ToNumber(v) ==
    IF v.kind = "exc" THEN v
    ELSE IF v.kind = "str" THEN Exc("ValueError", <<"could not convert">>)
    ELSE IF v.kind = "None"
    THEN Exc("TypeError", <<"argument must be a string or a number">>)
    ELSE v

\* v.split(" ") of a parsed value: only a str has the method
SplitQty(v) ==
    IF v.kind = "exc" THEN v
    ELSE IF v.kind = "str" THEN v
    ELSE Exc("AttributeError", <<"object has no attribute 'split'">>)

\* str.lower() on the unit tokens the inputs write
Lower(u) == IF u \in {"Hz", "HZ", "hZ"} THEN "hz" ELSE u

\* parse_header_and_leave_cursor on a companion file: the block of its header
\* lines and of the sentinel line, or the failure at end of file
parse_header_and_leave_cursor(f) ==
    IF f.sentinel THEN Returned(DictPut(f.params, search_string_text, PyNone))
    ELSE raise_eof_error(FileObject)

\* np.fromfile(f, dtype, count) followed by assert_end_of_data(f): the payload
\* read takes `count` records and the trailer must follow them
read_payload(f, count) ==
    IF count = Len(f.data) /\ f.trailer_ok THEN Returned(f.data)
    ELSE Exc("AssertionError", <<>>)

\* ------------------------------------------------------------- file names

AsciiOrder == <<"0", "1", "2", "3", "4", "5", "6", "7", "8", "9", "e", "f", "g", "o", "p", "s">>

CharOrd(c) == IndexOf(AsciiOrder, c, 1)

\* a < b for two texts, as Python compares str
RECURSIVE LexLess(_, _)
LexLess(a, b) ==
    IF b = <<>> THEN FALSE
    ELSE IF a = <<>> THEN TRUE
    ELSE IF Head(a) = Head(b) THEN LexLess(Tail(a), Tail(b))
    ELSE CharOrd(Head(a)) < CharOrd(Head(b))

\* sorted(S)
RECURSIVE Sorted(_)
Sorted(S) ==
    IF S = {} THEN <<>>
    ELSE LET m == CHOOSE x \in S : \A y \in S \ {x} : LexLess(x, y)
         IN <<m>> \o Sorted(S \ {m})

\* every order in which a directory listing can return the names in S
RECURSIVE Orders(_)
Orders(S) ==
    IF S = {} THEN {<<>>}
    ELSE UNION { { <<x>> \o t : t \in Orders(S \ {x}) } : x \in S }

\* glob(base + ".[0-9]*"): the names whose extension starts with a digit
glob_channel_groups(files) ==
    { e \in DOMAIN files : e # <<>> /\ e[1] \in Digits }

\* glob(base + "." + kind) and glob(base + "." + kind + "[0-9]*")
glob_kind(files, kind) ==
    { e \in DOMAIN files :
        /\ Len(e) >= 3 /\ SubSeq(e, 1, 3) = kind
        /\ Len(e) > 3 => e[4] \in Digits }

EXT_eeg == <<"e", "e", "g">>
EXT_egf == <<"e", "g", "f">>
EXT_pos == <<"p", "o", "s">>

\* ----------------------------------------------------------- __init__

\* the outcome of two statements in a row: the failure of the first, else
\* the outcome of the second
Then(x, y) == IF x.kind = "exc" THEN x ELSE y

ChannelIndex(group_id, channel_ids) ==
    [group_id |-> group_id,
     channel_ids |-> channel_ids,
     units |-> <<>>,
     analogsignals |-> <<>>]

\* lines 161-187 for one channel group file of num_chans channels.  The two
\* maps hold references: positions in _channel_indexes.
catalog_add(obj, num_chans) ==
    LET group_id == obj._channel_group_count + 1
        channel_ids == [i \in 1..num_chans |-> obj._channel_count + i - 1]
        ref == Len(obj._channel_indexes) + 1
    IN [obj EXCEPT
          !._channel_group_count = group_id,
          !._channel_indexes = Append(@, ChannelIndex(group_id, channel_ids)),
          !._channel_group_to_channel_index = DictPut(@, group_id, ref),
          !._channel_to_channel_index =
              [c \in (DOMAIN @) \cup Range(channel_ids) |->
                  IF c \in Range(channel_ids) THEN ref ELSE @[c]],
          !._channel_count = @ + num_chans]

\* lines 164-168: num_chans of a header block, which range() must accept
num_chans_of(hdr) ==
    IF hdr.kind = "exc" THEN hdr
    ELSE IF "num_chans" \notin DOMAIN hdr.val THEN Lookup(hdr.val, "num_chans")
    ELSE IF hdr.val["num_chans"].kind # "int"
    THEN Exc("TypeError", <<"object cannot be interpreted as an integer">>)
    ELSE hdr.val["num_chans"]

\* lines 159-187: the loop over the listing of the channel group files
RECURSIVE catalog_loop(_, _, _)
RECURSIVE catalog_step(_, _, _, _)
catalog_step(obj, files, listing, nc) ==
    IF nc.kind = "exc" THEN nc
    ELSE catalog_loop(catalog_add(obj, nc.val), files, Tail(listing))

catalog_loop(obj, files, listing) ==
    IF listing = <<>> THEN Returned(obj)
    ELSE catalog_step(obj, files, listing,
             num_chans_of(parse_header_and_leave_cursor(files[Head(listing)])))

\* lines 144-158: the object before the channel group files are read
new_object(params, fullscale, duration, spots) ==
    [_adc_fullscale |-> fullscale * 1000,
     _duration |-> duration,
     _tracked_spots_count |-> spots,
     _params |-> params,
     _channel_to_channel_index |-> EmptyDict,
     _channel_group_to_channel_index |-> EmptyDict,
     _channel_count |-> 0,
     _channel_group_count |-> 0,
     _channel_indexes |-> <<>>]

\* lines 126-190; glob lists the channel group files in directory order
AxonaIO(extension, d) ==
    IF extension # ".set"
    THEN Exc("ValueError", <<"file extension must be '.set'">>)
    ELSE
    LET fullscale == ToNumber(Lookup(d.root, "ADC_fullscale_mv"))
        duration == ToNumber(Lookup(d.root, "duration"))
        spots == ToNumber(Lookup(d.root, "tracked_spots"))
    IN Then(fullscale, Then(duration, Then(spots,
          catalog_loop(new_object(d.root, fullscale.val, duration.val, spots.val),
                       d.files, d.order))))

\* --------------------------------------------------------------- numbers

\* the quotient n / d of two whole numbers, kept exact
Ratio(n, d) == [kind |-> "num", num |-> n, den |-> d]
NaN == [kind |-> "nan"]

RECURSIVE Pow2(_)
Pow2(n) == IF n <= 0 THEN 1 ELSE 2 * Pow2(n - 1)

\* lines 84-101 for one sample: (value / max_value) * (adc_fullscale_mv / gain).
\* The arrays the decoders pass own their data, so line 94 never raises.
scale_analog_signal(value, gain, adc_fullscale_mv, bytes_per_sample) ==
    LET max_value == Pow2(8 * bytes_per_sample - 1)
    IN Ratio(value * adc_fullscale_mv, max_value * gain)

\* ------------------------------------------------------- read_spiketrain

\* lines 194-198
channel_gain(obj, channel_group_index, channel_index) ==
    LET global_channel_index == channel_group_index * 4 + channel_index
        param_name == "gain_ch_" \o ToString(global_channel_index)
    IN ToNumber(Lookup(obj._params, param_name))

\* line 253: the group index the decoder derives from the file name
channel_group_index_of(raw_filename) ==
    IF IsIntLiteral(raw_filename) THEN PyInt(IntVal(raw_filename))
    ELSE Exc("ValueError", <<"invalid literal for int()">>)

\* the first failure in a sequence of results, or the sequence of their values
RECURSIVE FirstExc(_)
RECURSIVE FirstExcRest(_, _)
FirstExcRest(first, rest) ==
    IF rest.kind = "exc" THEN rest ELSE Returned(<<first.val>> \o rest.val)

FirstExc(rs) ==
    IF rs = <<>> THEN Returned(<<>>)
    ELSE IF Head(rs).kind = "exc" THEN Head(rs)
    ELSE FirstExcRest(Head(rs), FirstExc(Tail(rs)))

\* lines 276-300: the spike train of the records read, before it is tagged
spike_train(obj, raw_filename, params, cgi, timebase, data, gains) ==
    LET num_spikes == Get(params, "num_spikes", PyInt(0)).val
        num_chans == Get(params, "num_chans", PyInt(1)).val
        bytes_per_sample == Get(params, "bytes_per_sample", PyInt(1)).val
    IN [raw_filename |-> raw_filename,
        channel_group_index |-> cgi,
        \* times are saved for each channel: every num_chans-th record
        times |-> [k \in 1..num_spikes |->
                     Ratio(data[(k - 1) * num_chans + 1].times, timebase)],
        \* the samples, negated and scaled with the gain of their channel
        waveforms |-> [k \in 1..num_spikes |-> [i \in 1..num_chans |->
                         scale_analog_signal(
                             -(data[(k - 1) * num_chans + i].waveforms),
                             gains[i], obj._adc_fullscale, bytes_per_sample)]],
        t_stop |-> obj._duration,
        sampling_rate |-> Get(params, "rawrate", PyInt(48000)).val,
        left_sweep |-> "0.2 ms",
        channel_index |-> 0]

\* lines 250-301 for one file
decode_spike_file(obj, files, raw_filename) ==
    LET hdr == parse_header_and_leave_cursor(files[raw_filename])
        cgi == channel_group_index_of(raw_filename)
        tb == SplitQty(Get(hdr.val, "timebase", PyQty(96000, "hz")))
        data == read_payload(files[raw_filename],
                             Get(hdr.val, "num_spikes", PyInt(0)).val
                             * Get(hdr.val, "num_chans", PyInt(1)).val)
        gains == FirstExc([i \in 1..Get(hdr.val, "num_chans", PyInt(1)).val |->
                              channel_gain(obj, cgi.val, i - 1)])
    IN Then(hdr, Then(cgi, Then(tb, Then(data, Then(gains,
          Returned(spike_train(obj, raw_filename, hdr.val, cgi.val, tb.num,
                               data.val, gains.val)))))))

\* lines 249-306: the loop over the sorted file names; a failure leaves the
\* units already attached in place
RECURSIVE spiketrain_loop(_, _, _, _)
RECURSIVE spiketrain_step(_, _, _, _, _)
spiketrain_step(obj, files, names, spike_trains, st) ==
    IF st.kind = "exc" THEN [out |-> st, self |-> obj]
    ELSE IF st.val.channel_group_index
               \notin DOMAIN obj._channel_group_to_channel_index
    THEN [out |-> LookupInt(obj._channel_group_to_channel_index,
                            st.val.channel_group_index),
          self |-> obj]
    ELSE
    LET ref == obj._channel_group_to_channel_index[st.val.channel_group_index]
    IN spiketrain_loop(
          [obj EXCEPT !._channel_indexes[ref].units =
                          Append(@, [spiketrains |-> <<Head(names)>>])],
          files, Tail(names),
          Append(spike_trains, [st.val EXCEPT !.channel_index = ref]))

spiketrain_loop(obj, files, names, spike_trains) ==
    IF names = <<>> THEN [out |-> Returned(spike_trains), self |-> obj]
    ELSE spiketrain_step(obj, files, names, spike_trains,
                         decode_spike_file(obj, files, Head(names)))

\* lines 240-308
read_spiketrain(obj, d) ==
    spiketrain_loop(obj, d.files, Sorted(glob_channel_groups(d.files)), <<>>)

\* --------------------------------------------------------- read_tracking

\* lines 354-357: the scaled coordinates of every record, with the records
\* np.where selects for a column set to nan: the index array holds rows, and
\* coords[rows] = nan assigns whole rows
decode_coords(data, spots, length_scale) ==
    LET missing == { r \in 1..Len(data) :
                       \E i \in 1..(2 * spots) : data[r].coords[i] = 1023 }
    IN [r \in 1..Len(data) |-> [i \in 1..(2 * spots) |->
          IF r \in missing THEN NaN ELSE Ratio(data[r].coords[i], length_scale)]]

\* lines 359-368: one signal per tracked spot, of columns 2i and 2i+1
irr_signals(data, coords, spots, time_scale) ==
    [i \in 1..spots |->
       [name |-> "tracking_xy" \o ToString(i - 1),
        signal |-> [r \in 1..Len(data) |->
                      << coords[r][2 * i - 1], coords[r][2 * i] >>],
        times |-> [r \in 1..Len(data) |-> Ratio(data[r].t, time_scale)]]]

\* line 325: the unit of the sample rate is compared as written
assert_hz(rate) ==
    IF rate.kind = "exc" THEN rate
    ELSE IF rate.unit = "hz" THEN rate
    ELSE Exc("AssertionError", <<>>)

\* lines 320-370, the file being there
decode_pos_file(obj, f) ==
    LET hdr == parse_header_and_leave_cursor(f)
        rate == SplitQty(Lookup(hdr.val, "sample_rate"))
        spp == ToNumber(Lookup(hdr.val, "EEG_samples_per_position"))
        count == ToNumber(Lookup(hdr.val, "num_pos_samples"))
        bpt == ToNumber(Lookup(hdr.val, "bytes_per_timestamp"))
        bpc == ToNumber(Lookup(hdr.val, "bytes_per_coord"))
        data == read_payload(f, count.val)
        time_scale == SplitQty(Lookup(hdr.val, "timebase"))
        length_scale == ToNumber(Lookup(hdr.val, "pixels_per_metre"))
    IN Then(hdr, Then(assert_hz(rate), Then(spp, Then(count, Then(bpt,
       Then(bpc, Then(data, Then(time_scale, Then(length_scale,
          Returned(irr_signals(
              data.val,
              decode_coords(data.val, obj._tracked_spots_count, length_scale.val),
              obj._tracked_spots_count, time_scale.num)))))))))))

\* lines 316-370
read_tracking(obj, d) ==
    IF EXT_pos \notin DOMAIN d.files
    THEN Exc("IOError", <<"'.pos' file not found:", ".pos">>)
    ELSE decode_pos_file(obj, d.files[EXT_pos])

\* ----------------------------------------------------- read_analogsignal

\* lines 394-399: the kind and the numeric suffix of an analog file name
file_type_of(extension) == SubSeq(extension, 1, Min(3, Len(extension)))

suffix_of(extension) ==
    LET suffix == From(extension, Min(3, Len(extension)))
    IN IF suffix = <<>> THEN PyInt(1)
       ELSE IF IsIntLiteral(suffix) THEN PyInt(IntVal(suffix))
       ELSE Exc("ValueError", <<"invalid literal for int()">>)

\* the chain of lines 428-435 with a gain of 1 where the root file has none
resolve_channel_default_gain(obj, suffix) ==
    LET eeg_final_channel_id ==
            Lookup(obj._params, "EEG_ch_" \o ToString(suffix))
        ref_id ==
            Lookup(obj._params, "b_in_ch_" \o ToString(eeg_final_channel_id.val))
        eeg_original_channel_id ==
            Lookup(obj._params, "ref_" \o ToString(ref_id.val))
        gain ==
            Get(obj._params, "gain_ch_" \o ToString(eeg_final_channel_id.val),
                PyInt(1))
    IN Then(eeg_final_channel_id, Then(ref_id, Then(eeg_original_channel_id,
          Returned([channel_id |-> eeg_original_channel_id.val,
                    gain |-> gain.val]))))

\* the chain of lines 428-435 with the gain of the physical channel
resolve_channel_physical_gain(obj, suffix) ==
    LET eeg_final_channel_id ==
            Lookup(obj._params, "EEG_ch_" \o ToString(suffix))
        ref_id ==
            Lookup(obj._params, "b_in_ch_" \o ToString(eeg_final_channel_id.val))
        eeg_original_channel_id ==
            Lookup(obj._params, "ref_" \o ToString(ref_id.val))
        gain ==
            Lookup(obj._params, "gain_ch_" \o ToString(eeg_original_channel_id.val))
    IN Then(eeg_final_channel_id, Then(ref_id, Then(eeg_original_channel_id,
       Then(gain,
          Returned([channel_id |-> eeg_original_channel_id.val,
                    gain |-> gain.val])))))

\* lines 428-435: the channel the signal is tagged with and the gain it is
\* scaled with, through the parameters of the root file
resolve_channel(obj, suffix) ==
    LET eeg_final_channel_id ==
            Lookup(obj._params, "EEG_ch_" \o ToString(suffix))
        eeg_mode ==
            Lookup(obj._params, "mode_ch_" \o ToString(eeg_final_channel_id.val))
        ref_id ==
            Lookup(obj._params, "b_in_ch_" \o ToString(eeg_final_channel_id.val))
        eeg_original_channel_id ==
            Lookup(obj._params, "ref_" \o ToString(ref_id.val))
        gain ==
            Lookup(obj._params, "gain_ch_" \o ToString(eeg_final_channel_id.val))
    IN Then(eeg_final_channel_id, Then(eeg_mode, Then(ref_id,
       Then(eeg_original_channel_id, Then(gain,
          Returned([channel_id |-> eeg_original_channel_id.val,
                    gain |-> gain.val]))))))

\* lines 404-409: the key of the sample count depends on the kind of file
sample_count_of(file_type, params) ==
    IF file_type = EXT_eeg THEN ToNumber(Lookup(params, "num_EEG_samples"))
    ELSE IF file_type = EXT_egf THEN ToNumber(Lookup(params, "num_EGF_samples"))
    ELSE Exc("IOError", <<"Unknown file type. Should be .eeg or .efg.">>)

\* line 413: the unit of the sample rate is compared in lower case
assert_hz_lower(rate) ==
    IF rate.kind = "exc" THEN rate
    ELSE IF Lower(rate.unit) = "hz" THEN rate
    ELSE Exc("AssertionError", <<>>)

\* lines 394-414 for one file: what is read of its name and header
analog_header(files, eeg_filename) ==
    LET suffix == suffix_of(eeg_filename)
        hdr == parse_header_and_leave_cursor(files[eeg_filename])
        sample_count == sample_count_of(file_type_of(eeg_filename), hdr.val)
        rate == SplitQty(Lookup(hdr.val, "sample_rate"))
        bytes_per_sample == Lookup(hdr.val, "bytes_per_sample")
    IN Then(suffix, Then(hdr, Then(sample_count, Then(rate,
       Then(bytes_per_sample, Then(assert_hz_lower(rate),
          Returned([suffix |-> suffix.val,
                    params |-> hdr.val,
                    sample_count |-> sample_count.val,
                    sample_rate |-> rate.num,
                    bytes_per_sample |-> bytes_per_sample.val])))))))

\* lines 437-446: the AnalogSignal of the samples read
analog_signal(obj, eeg_filename, h, data, chan) ==
    [raw_filename |-> eeg_filename,
     channel_id |-> chan.channel_id,
     gain |-> chan.gain,
     signal |-> [k \in 1..Len(data) |->
                   scale_analog_signal(data[k], chan.gain, obj._adc_fullscale,
                                       h.bytes_per_sample)],
     units |-> "uV",
     sampling_rate |-> h.sample_rate]

\* lines 425-446 for one file whose header h has been read, lazy being false
decode_analog_payload(obj, f, eeg_filename, h) ==
    IF h.kind = "exc" THEN h
    ELSE
    LET num_chans == Lookup(h.val.params, "num_chans")
        data == read_payload(f, h.val.sample_count)
        chan == resolve_channel(obj, h.val.suffix)
    IN Then(num_chans, Then(data, Then(chan,
          Returned(analog_signal(obj, eeg_filename, h.val, data.val, chan.val)))))

\* lines 394-446 for one file, lazy being false
decode_analog_file(obj, files, eeg_filename) ==
    decode_analog_payload(obj, files[eeg_filename], eeg_filename,
                          analog_header(files, eeg_filename))

\* lines 416-418 and 452 for one file, lazy being true: no analog_signal is
\* bound when line 452 appends it
lazy_analog_file(h) ==
    IF h.kind = "exc" THEN h ELSE Exc("UnboundLocalError", <<"analog_signal">>)

\* lines 393-452: the loop over the sorted file names; a failure leaves the
\* signals already attached in place
RECURSIVE analogsignal_loop(_, _, _, _, _)
RECURSIVE analogsignal_step(_, _, _, _, _)
analogsignal_step(obj, files, names, analog_signals, sig) ==
    IF sig.kind = "exc" THEN [out |-> sig, self |-> obj]
    ELSE IF sig.val.channel_id \notin DOMAIN obj._channel_to_channel_index
    THEN [out |-> LookupInt(obj._channel_to_channel_index, sig.val.channel_id),
          self |-> obj]
    ELSE
    LET ref == obj._channel_to_channel_index[sig.val.channel_id]
    IN analogsignal_loop(
          [obj EXCEPT !._channel_indexes[ref].analogsignals =
                          Append(@, [raw_filename |-> Head(names),
                                     channel_id |-> sig.val.channel_id])],
          files, Tail(names), Append(analog_signals, sig.val), FALSE)

analogsignal_loop(obj, files, names, analog_signals, lazy) ==
    IF names = <<>> THEN [out |-> Returned(analog_signals), self |-> obj]
    ELSE IF lazy
    THEN [out |-> lazy_analog_file(analog_header(files, Head(names))),
          self |-> obj]
    ELSE analogsignal_step(obj, files, names, analog_signals,
                           decode_analog_file(obj, files, Head(names)))

\* lines 373-454
read_analogsignal(obj, d, lazy) ==
    analogsignal_loop(
        obj, d.files,
        Sorted(glob_kind(d.files, EXT_eeg) \cup glob_kind(d.files, EXT_egf)),
        <<>>, lazy)

\* ------------------------------------------------------------ read_block

EmptyBlock == [segments |-> <<>>, channel_indexes |-> <<>>]

\* lines 218-220: what the except clause prints
tracking_warning(t) ==
    IF t.kind = "exc" THEN <<"Warning: unable to read tracking", t.msg>>
    ELSE <<>>

\* lines 221-234, the analog signals a and the tracking outcome t being there
block_with_spikes(obj, a, t, sp) ==
    IF sp.out.kind = "exc"
    THEN [out |-> sp.out, stdout |-> tracking_warning(t), self |-> sp.self]
    ELSE [out |-> Returned(
             [segments |-> <<[analogsignals |-> a.out.val,
                              irregularlysampledsignals |->
                                  IF t.kind = "exc" THEN <<>> ELSE t.val,
                              spiketrains |-> sp.out.val,
                              duration |-> obj._duration]>>,
              channel_indexes |-> sp.self._channel_indexes]),
          stdout |-> tracking_warning(t),
          self |-> sp.self]

\* lines 216-234: a failure of read_tracking is caught and printed
block_with_tracking(obj, d, a, t) ==
    block_with_spikes(obj, a, t, read_spiketrain(a.self, d))

\* lines 215-234 without the try statement around read_tracking
block_with_analog_uncaught(obj, d, a) ==
    IF a.out.kind = "exc"
    THEN [out |-> a.out, stdout |-> <<>>, self |-> a.self]
    ELSE IF read_tracking(a.self, d).kind = "exc"
    THEN [out |-> read_tracking(a.self, d), stdout |-> <<>>, self |-> a.self]
    ELSE block_with_tracking(obj, d, a, read_tracking(a.self, d))

\* lines 215-234: a failure of read_analogsignal ends the call
block_with_analog(obj, d, a) ==
    IF a.out.kind = "exc"
    THEN [out |-> a.out, stdout |-> <<>>, self |-> a.self]
    ELSE block_with_tracking(obj, d, a, read_tracking(a.self, d))

\* lines 200-234: the block, what was printed, and the object afterwards
read_block(obj, d, lazy, cascade) ==
    IF ~cascade
    THEN [out |-> Returned(EmptyBlock), stdout |-> <<>>, self |-> obj]
    ELSE block_with_analog(obj, d, read_analogsignal(obj, d, lazy))

\* ------------------------------------------------------------- datasets

MaxGroupFiles == 2    \* channel group files in a dataset
MaxAnalogFiles == 2   \* analog files in a dataset
MaxAttach == 1        \* units, or analog signals, attached to one channel group

\* <base>.1, <base>.2, <base>.10
GroupSuffixPool == { <<"1">>, <<"2">>, <<"1", "0">> }
NumChansPool == {1, 4}

\* <base>.eeg, <base>.eeg2, <base>.egf
AnalogExtPool == { EXT_eeg, EXT_eeg \o <<"2">>, EXT_egf }

\* a well-formed channel group file: one spike, one sample per spike
GroupFile(num_chans) ==
    [sentinel |-> TRUE,
     params |-> ("num_chans" :> PyInt(num_chans)) @@ ("num_spikes" :> PyInt(1))
                @@ ("samples_per_spike" :> PyInt(1))
                @@ ("bytes_per_sample" :> PyInt(1))
                @@ ("timebase" :> PyQty(96000, "hz")),
     data |-> [i \in 1..num_chans |-> [times |-> 48000, waveforms |-> 64]],
     trailer_ok |-> TRUE]

\* a well-formed analog file of two samples
AnalogFile(extension) ==
    [sentinel |-> TRUE,
     params |-> ((IF file_type_of(extension) = EXT_eeg
                  THEN "num_EEG_samples" ELSE "num_EGF_samples") :> PyInt(2))
                @@ ("sample_rate" :> PyQty(250, "hz"))
                @@ ("bytes_per_sample" :> PyInt(1))
                @@ ("num_chans" :> PyInt(1)),
     data |-> <<64, -128>>,
     trailer_ok |-> TRUE]

\* a well-formed tracking file holding the given records
PosFile(records) ==
    [sentinel |-> TRUE,
     params |-> ("sample_rate" :> PyQty(50, "hz"))
                @@ ("EEG_samples_per_position" :> PyInt(5))
                @@ ("num_pos_samples" :> PyInt(Len(records)))
                @@ ("bytes_per_timestamp" :> PyInt(4))
                @@ ("bytes_per_coord" :> PyInt(2))
                @@ ("timebase" :> PyQty(50, "hz"))
                @@ ("pixels_per_metre" :> PyInt(300)),
     data |-> records,
     trailer_ok |-> TRUE]

\* two records for the given number of tracked spots, the second with the
\* raw value 1023 in its first coordinate slot
PosRecords(spots) ==
    << [t |-> 0, coords |-> [i \in 1..(2 * spots) |-> 100 + i],
        pixel_count |-> <<9, 9>>],
       [t |-> 1, coords |-> [i \in 1..(2 * spots) |-> IF i = 1 THEN 1023 ELSE 200 + i],
        pixel_count |-> <<0, 9>>] >>

\* the keys prefix<n>, n in the domain of f, with the whole-number values f[n]
Table(prefix, f) ==
    [k \in { prefix \o ToString(n) : n \in DOMAIN f } |->
        PyInt(f[CHOOSE n \in DOMAIN f : prefix \o ToString(n) = k])]

\* The root file of a recording with the given number of tracked spots:
\* EEG_ch_1 = 5, b_in_ch_5 = 2, ref_2 = 7, gain_ch_5 = 100 and
\* EEG_ch_2 = 6, b_in_ch_6 = 3, ref_3 = 0, gain_ch_6 = 101.
RootFile(spots) ==
    ("ADC_fullscale_mv" :> PyInt(1500)) @@ ("duration" :> PyInt(600))
    @@ ("tracked_spots" :> PyInt(spots))
    @@ Table("EEG_ch_", [x \in 1..2 |-> 4 + x])
    @@ Table("mode_ch_", [c \in 0..7 |-> 0])
    @@ Table("b_in_ch_", [c \in 0..7 |-> (c + 5) % 8])
    @@ Table("ref_", [b \in 0..7 |-> (b + 5) % 8])
    @@ Table("gain_ch_", [c \in 0..63 |-> 95 + c])

Without(d, key) == [k \in (DOMAIN d) \ {key} |-> d[k]]

\* root files that lack one of the keys the analog decoder looks up
IncompleteRootFiles ==
    { Without(RootFile(1), key) :
        key \in {"EEG_ch_1", "ref_2", "gain_ch_5", "gain_ch_6"} }

SubsetsUpTo(S, n) == { T \in SUBSET S : Cardinality(T) <= n }

\* the channel group files and the analog files of a dataset
CompanionSets ==
    { g @@ a :
        g \in UNION { [S -> { GroupFile(n) : n \in NumChansPool }] :
                        S \in SubsetsUpTo(GroupSuffixPool, MaxGroupFiles) },
        a \in { [e \in E |-> AnalogFile(e)] :
                        E \in SubsetsUpTo(AnalogExtPool, MaxAnalogFiles) } }

WithPos(files, spots) == files @@ (EXT_pos :> PosFile(PosRecords(spots)))

Dataset(root, files) ==
    { [root |-> root, files |-> files, order |-> o] :
        o \in Orders(glob_channel_groups(files)) }

\* a dataset: the root parameter block, the companion files, and the order
\* in which the directory lists the channel group files.  Every set of
\* companions comes with and without a tracking file under the complete
\* root file, and with one under each incomplete root file.
Datasets ==
    UNION { Dataset(RootFile(1), c) \cup Dataset(RootFile(1), WithPos(c, 1)) :
              c \in CompanionSets }
    \cup UNION { Dataset(r, WithPos(c, 1)) :
              r \in IncompleteRootFiles, c \in CompanionSets }

\* ------------------------------------------------------------- the calls

Call(op, lazy, cascade, result, printed) ==
    [op |-> op, lazy |-> lazy, cascade |-> cascade, out |-> result,
     stdout |-> printed]

\* the lists that calls grow stay within the bound
MayAttach ==
    \A i \in 1..Len(self._channel_indexes) :
        /\ Len(self._channel_indexes[i].units) < MaxAttach
        /\ Len(self._channel_indexes[i].analogsignals) < MaxAttach

\* the constructor call and its outcome r
Constructed(r) ==
    /\ call' = Call("__init__", FALSE, TRUE,
                    IF r.kind = "exc" THEN r ELSE Returned(PyNone), <<>>)
    /\ self' = IF r.kind = "exc" THEN NoValue ELSE r.val

AxonaIO_init ==
    /\ self = NoValue /\ call = NoValue
    /\ \E extension \in {".set", ".pos"} : Constructed(AxonaIO(extension, fs))
    /\ UNCHANGED fs
    /\ UNCHANGED byteVars
    /\ UNCHANGED ioVars

\* a call of a read method and its outcome r
Called(op, lazy, cascade, r) ==
    /\ self' = r.self
    /\ call' = Call(op, lazy, cascade, r.out, r.stdout)

ReadSpiketrain ==
    /\ self # NoValue /\ MayAttach
    /\ Called("read_spiketrain", FALSE, TRUE,
              [stdout |-> <<>>] @@ read_spiketrain(self, fs))
    /\ UNCHANGED fs
    /\ UNCHANGED byteVars
    /\ UNCHANGED ioVars

ReadTracking ==
    /\ self # NoValue
    /\ call' = Call("read_tracking", FALSE, TRUE, read_tracking(self, fs), <<>>)
    /\ UNCHANGED <<fs, self>>
    /\ UNCHANGED byteVars
    /\ UNCHANGED ioVars

ReadAnalogsignal(lazy) ==
    /\ self # NoValue /\ MayAttach
    /\ Called("read_analogsignal", lazy, TRUE,
              [stdout |-> <<>>] @@ read_analogsignal(self, fs, lazy))
    /\ UNCHANGED fs
    /\ UNCHANGED byteVars
    /\ UNCHANGED ioVars

ReadBlock(lazy, cascade) ==
    /\ self # NoValue /\ MayAttach
    /\ Called("read_block", lazy, cascade, read_block(self, fs, lazy, cascade))
    /\ UNCHANGED fs
    /\ UNCHANGED byteVars
    /\ UNCHANGED ioVars

Init ==
    /\ fs \in Datasets
    /\ self = NoValue
    /\ call = NoValue
    /\ fh_data = <<>> /\ fh_pos = 0 /\ header = <<>> /\ remaining_data = <<>>
    /\ pc = "idle" /\ out = NoValue
    /\ frame = NoValue /\ opened = {} /\ io_log = <<>>

Next ==
    \/ AxonaIO_init
    \/ ReadSpiketrain
    \/ ReadTracking
    \/ \E lazy \in BOOLEAN : ReadAnalogsignal(lazy)
    \/ \E lazy \in BOOLEAN, cascade \in BOOLEAN : ReadBlock(lazy, cascade)

Spec == Init /\ [][Next]_vars

\* ------------------------------------------------- tracking in isolation

MaxPosSamples == 2    \* position records in a tracking file

\* the numbers of tracked spots a root file declares
SpotCounts == {1, 2}

\* raw coordinate values: an ordinary one and the one that marks a missing one
CoordPool == {150, 1023}

\* every tracking payload of up to MaxPosSamples records
PosPayloads(spots) ==
    UNION { [1..n -> [t : {48}, coords : [1..(2 * spots) -> CoordPool],
                      pixel_count : {<<9, 9>>}]] : n \in 0..MaxPosSamples }

\* a dataset of a root file and a tracking file
TrackDatasets ==
    UNION { { [root |-> RootFile(spots),
               files |-> (EXT_pos :> PosFile(records)),
               order |-> <<>>] : records \in PosPayloads(spots) } :
            spots \in SpotCounts }

\* the object has been constructed over the dataset
Init_Track ==
    /\ fs \in TrackDatasets
    /\ self = AxonaIO(".set", fs).val
    /\ call = NoValue
    /\ fh_data = <<>> /\ fh_pos = 0 /\ header = <<>> /\ remaining_data = <<>>
    /\ pc = "idle" /\ out = NoValue
    /\ frame = NoValue /\ opened = {} /\ io_log = <<>>

Next_Track == ReadTracking

SpecTrack == Init_Track /\ [][Next_Track]_vars

\* =========================================================================
\* Properties of the dataset level
\* =========================================================================

\* the last call was a call of `op`
IsCall(op) == call # NoValue /\ call.op = op

\* the channel group files and the analog files, in lexicographic order
GroupNames == Sorted(glob_channel_groups(fs.files))
AnalogNames ==
    Sorted(glob_kind(fs.files, EXT_eeg) \cup glob_kind(fs.files, EXT_egf))

RECURSIVE SumSeq(_)
SumSeq(q) == IF q = <<>> THEN 0 ELSE Head(q) + SumSeq(Tail(q))

RawFilenames(q) == [i \in 1..Len(q) |-> q[i].raw_filename]

\* C2: a record with the raw value 1023 in one coordinate slot decodes to
\* not-a-number in exactly that slot; every other coordinate of the record and
\* its timestamp decode to their scaled values.
C2_OnlySlotIsNaN ==
    (IsCall("read_tracking") /\ call.out.kind = "returned")
    => LET f == fs.files[EXT_pos]
           length_scale == f.params["pixels_per_metre"].val
           time_scale == f.params["timebase"].num
       IN \A r \in 1..Len(f.data), j \in 1..(2 * self._tracked_spots_count) :
            LET irr_signal == call.out.val[(j + 1) \div 2]
            IN /\ irr_signal.signal[r][2 - (j % 2)] =
                      IF f.data[r].coords[j] = 1023 THEN NaN
                      ELSE Ratio(f.data[r].coords[j], length_scale)
               /\ irr_signal.times[r] = Ratio(f.data[r].t, time_scale)

\* C3: whatever the order of the directory listing, the catalog has group ids
\* 1..n in lexicographic filename order, a contiguous range of channel ids per
\* group, increasing with the group id and disjoint from the others, and a
\* channel count that is the sum of the groups' num_chans.
C3_CatalogInFilenameOrder ==
    self # NoValue
    => LET ci == self._channel_indexes
           num_chans == [k \in 1..Len(GroupNames) |->
                           fs.files[GroupNames[k]].params["num_chans"].val]
       IN /\ Len(ci) = Len(GroupNames)
          /\ \A k \in 1..Len(ci) :
                /\ ci[k].group_id = k
                /\ Len(ci[k].channel_ids) = num_chans[k]
                /\ \A i \in 1..(Len(ci[k].channel_ids) - 1) :
                      ci[k].channel_ids[i + 1] = ci[k].channel_ids[i] + 1
                /\ k > 1 => ci[k].channel_ids[1] =
                      ci[k - 1].channel_ids[Len(ci[k - 1].channel_ids)] + 1
          /\ self._channel_count = SumSeq(num_chans)

\* the spike files and the analog files of the dataset decode on their own
SpikeAndAnalogWellFormed ==
    /\ read_spiketrain(self, fs).out.kind = "returned"
    /\ read_analogsignal(self, fs, FALSE).out.kind = "returned"

SuffixNumber(eeg_filename) ==
    IF Len(eeg_filename) <= 3 THEN 1 ELSE IntVal(From(eeg_filename, 3))

\* a key the analog decode of the file looks up is absent from the root file
MissingRootKey(root, eeg_filename) ==
    \/ "EEG_ch_" \o ToString(SuffixNumber(eeg_filename)) \notin DOMAIN root
    \/ LET c == root["EEG_ch_" \o ToString(SuffixNumber(eeg_filename))].val
       IN \/ "mode_ch_" \o ToString(c) \notin DOMAIN root
          \/ "b_in_ch_" \o ToString(c) \notin DOMAIN root
          \/ "gain_ch_" \o ToString(c) \notin DOMAIN root
          \/ "ref_" \o ToString(root["b_in_ch_" \o ToString(c)].val)
                 \notin DOMAIN root

\* the analog signals attached to the channel groups
Attached ==
    UNION { Range(self._channel_indexes[i].analogsignals) :
              i \in 1..Len(self._channel_indexes) }

\* C7: when a root-file key the analog decode of a file needs is absent, the
\* decode fails with a FormatError and no AnalogSignal of that file is
\* emitted: none is returned, none is attached to a channel group.
C7_MissingKeyEmitsNothing ==
    (IsCall("read_analogsignal") /\ ~call.lazy)
    => \A F \in Range(AnalogNames) :
          MissingRootKey(fs.root, F)
          => /\ call.out.kind = "exc"
             /\ call.out.type \in FormatErrorTypes
             /\ \A s \in Attached : s.raw_filename # F

\* <base>.eeg has been decoded and attached, <base>.eeg2 lacks its gain
C7_Witness ==
    /\ IsCall("read_analogsignal") /\ ~call.lazy
    /\ \E F \in Range(AnalogNames) : MissingRootKey(fs.root, F)
    /\ call.out = Exc("KeyError", <<"gain_ch_6">>)
    /\ Attached # {}

\* C8: an analog file of numeric suffix s (1 when the extension ends in no
\* digits) resolves c = EEG_ch_<s>, b = b_in_ch_<c>, p = ref_<b>; its signal is
\* tagged with channel id p and scaled with gain_ch_<c>, not gain_ch_<p>.
\* <base>.eeg resolves to physical channel 7 and gain 100.
C8_ChannelChain ==
    (IsCall("read_analogsignal") /\ call.out.kind = "returned")
    => \A k \in 1..Len(call.out.val) :
          LET sig == call.out.val[k]
              f == fs.files[sig.raw_filename]
              c == fs.root["EEG_ch_" \o ToString(SuffixNumber(sig.raw_filename))].val
              b == fs.root["b_in_ch_" \o ToString(c)].val
              p == fs.root["ref_" \o ToString(b)].val
              gain == fs.root["gain_ch_" \o ToString(c)].val
          IN /\ sig.channel_id = p
             /\ sig.gain = gain
             /\ sig.signal = [n \in 1..Len(f.data) |->
                                Ratio(f.data[n] * fs.root["ADC_fullscale_mv"].val * 1000,
                                      Pow2(8 * f.params["bytes_per_sample"].val - 1) * gain)]
             /\ sig.raw_filename = EXT_eeg => sig.channel_id = 7 /\ sig.gain = 100

\* <base>.eeg has been decoded: channel 7, gain 100
C8_Witness ==
    /\ IsCall("read_analogsignal") /\ call.out.kind = "returned"
    /\ \E k \in 1..Len(call.out.val) :
          /\ call.out.val[k].raw_filename = EXT_eeg
          /\ call.out.val[k].channel_id = 7
          /\ call.out.val[k].gain = 100

\* C9: over a complete root file and any set of channel group files,
\* read_spiketrain returns one spike train per catalogued channel group, and
\* the spike train of file F is tagged with the channel group the catalog
\* made from F: the decoder's group index of F is the catalog's group id of F.
C9_SpikeTrainTaggedWithOwnGroup ==
    (IsCall("read_spiketrain") /\ fs.root = RootFile(1))
    => /\ call.out.kind = "returned"
       /\ Len(call.out.val) = Len(self._channel_indexes)
       /\ \A k \in 1..Len(call.out.val) :
             \E i \in 1..Len(fs.order) :
                /\ fs.order[i] = call.out.val[k].raw_filename
                /\ call.out.val[k].channel_index = i
                /\ call.out.val[k].channel_group_index =
                       self._channel_indexes[i].group_id

\* C10: once the catalog is built, no call of read_spiketrain, read_tracking,
\* read_analogsignal or read_block changes a channel group or an entry of the
\* channel-id and group-id maps.
C10_CatalogReadOnly ==
    [][self # NoValue
       => /\ self'._channel_indexes = self._channel_indexes
          /\ self'._channel_to_channel_index = self._channel_to_channel_index
          /\ self'._channel_group_to_channel_index =
                 self._channel_group_to_channel_index]_vars

\* =========================================================================
\* The methods statement by statement: each `with open(...) as f:` block is
\* entered, its body runs with the file open, and the block is left, which
\* closes the file, whether the body ended or raised.
\* =========================================================================

EXT_set == <<"s", "e", "t">>

\* the statements of a with block for one file: their outcome and the object
\* afterwards.  __init__: line 140 for the root file, lines 164-187 for a
\* channel group file; read_spiketrain: lines 251-273; read_tracking: lines
\* 321-370; read_analogsignal: lines 401-452.
spike_with_body(files, raw_filename) ==
    LET hdr == parse_header_and_leave_cursor(files[raw_filename])
        cgi == channel_group_index_of(raw_filename)
        tb == SplitQty(Get(hdr.val, "timebase", PyQty(96000, "hz")))
        data == read_payload(files[raw_filename],
                             Get(hdr.val, "num_spikes", PyInt(0)).val
                             * Get(hdr.val, "num_chans", PyInt(1)).val)
    IN Then(hdr, Then(cgi, Then(tb, data)))

init_with_body(obj, nc) ==
    IF nc.kind = "exc" THEN [out |-> nc, self |-> obj]
    ELSE [out |-> nc, self |-> catalog_add(obj, nc.val)]

analog_with_body(obj, eeg_filename, sig) ==
    IF sig.kind = "exc" THEN [out |-> sig, self |-> obj]
    ELSE IF sig.val.channel_id \notin DOMAIN obj._channel_to_channel_index
    THEN [out |-> LookupInt(obj._channel_to_channel_index, sig.val.channel_id),
          self |-> obj]
    ELSE [out |-> sig,
          self |-> [obj EXCEPT
             !._channel_indexes[obj._channel_to_channel_index[sig.val.channel_id]]
                 .analogsignals =
                 Append(@, [raw_filename |-> eeg_filename,
                            channel_id |-> sig.val.channel_id])]]

with_body(op, lazy, obj, d, name) ==
    CASE op = "__init__" /\ name = EXT_set ->
            [out |-> Returned(d.root), self |-> obj]
      [] op = "__init__" /\ name # EXT_set ->
            init_with_body(obj,
                num_chans_of(parse_header_and_leave_cursor(d.files[name])))
      [] op = "read_spiketrain" ->
            [out |-> spike_with_body(d.files, name), self |-> obj]
      [] op = "read_tracking" ->
            [out |-> decode_pos_file(obj, d.files[name]), self |-> obj]
      [] op = "read_analogsignal" /\ lazy ->
            [out |-> lazy_analog_file(analog_header(d.files, name)), self |-> obj]
      [] op = "read_analogsignal" /\ ~lazy ->
            analog_with_body(obj, name, decode_analog_file(obj, d.files, name))

\* lines 142-158: the object made of the text read from the root file
init_after_root(params) ==
    LET fullscale == ToNumber(Lookup(params, "ADC_fullscale_mv"))
        duration == ToNumber(Lookup(params, "duration"))
        spots == ToNumber(Lookup(params, "tracked_spots"))
    IN IF Then(fullscale, Then(duration, spots)).kind = "exc"
       THEN [out |-> Then(fullscale, Then(duration, spots)), self |-> NoValue]
       ELSE [out |-> Returned(PyNone),
             self |-> new_object(params, fullscale.val, duration.val, spots.val)]

\* lines 276-306 for one file whose with block has been left
spike_after_with(obj, raw_filename, st) ==
    IF st.kind = "exc" THEN [out |-> st, self |-> obj]
    ELSE IF st.val.channel_group_index
               \notin DOMAIN obj._channel_group_to_channel_index
    THEN [out |-> LookupInt(obj._channel_group_to_channel_index,
                            st.val.channel_group_index),
          self |-> obj]
    ELSE [out |-> Returned(
             [st.val EXCEPT !.channel_index =
                 obj._channel_group_to_channel_index[st.val.channel_group_index]]),
          self |-> [obj EXCEPT
             !._channel_indexes[obj._channel_group_to_channel_index[
                                    st.val.channel_group_index]].units =
                 Append(@, [spiketrains |-> <<raw_filename>>])]]

\* the statements between the end of a with block and the next iteration
after_with(op, obj, d, name, value) ==
    CASE op = "__init__" /\ name = EXT_set -> init_after_root(value)
      [] op = "read_spiketrain" ->
            spike_after_with(obj, name, decode_spike_file(obj, d.files, name))
      [] OTHER -> [out |-> Returned(value), self |-> obj]

\* a block that closes its file only when the body ends without raising
with_exit_unless_raised(files_open, name, pending) ==
    IF pending.kind = "exc" THEN files_open ELSE files_open \ {name}

\* leaving a with block: the file is closed, whatever the body's outcome
with_exit(files_open, name, pending) == files_open \ {name}

\* the files a method opens, in the order it opens them
file_list(op, d) ==
    CASE op = "__init__" -> <<EXT_set>> \o d.order
      [] op = "read_spiketrain" -> Sorted(glob_channel_groups(d.files))
      [] op = "read_tracking" -> <<EXT_pos>>
      [] op = "read_analogsignal" ->
            Sorted(glob_kind(d.files, EXT_eeg) \cup glob_kind(d.files, EXT_egf))

Frame(op, lazy, names, at, pending, acc) ==
    [op |-> op, lazy |-> lazy, names |-> names, at |-> at,
     pending |-> pending, acc |-> acc]

\* the running method ends: it returns or raises `result`
Finish(result, obj) ==
    /\ frame' = NoValue
    /\ call' = Call(frame.op, frame.lazy, TRUE, result, <<>>)
    /\ self' = IF frame.op = "__init__" /\ result.kind = "exc" THEN NoValue
               ELSE obj

\* lines 131-137: the constructor is called
BeginInit(extension) ==
    /\ frame = NoValue /\ self = NoValue /\ call = NoValue
    /\ io_log' = <<>>
    /\ IF extension # ".set"
       THEN /\ call' = Call("__init__", FALSE, TRUE,
                            Exc("ValueError", <<"file extension must be '.set'">>),
                            <<>>)
            /\ UNCHANGED frame
       ELSE /\ frame' = Frame("__init__", FALSE, file_list("__init__", fs),
                              "loop", NoValue, <<>>)
            /\ UNCHANGED call
    /\ UNCHANGED <<fs, self, opened>>
    /\ UNCHANGED byteVars

\* a read method is called: the statements before its first with block
BeginRead(op, lazy) ==
    /\ frame = NoValue /\ self # NoValue
    /\ op \in {"read_spiketrain", "read_analogsignal"} => MayAttach
    /\ lazy => op = "read_analogsignal"
    /\ io_log' = <<>>
    /\ IF op = "read_tracking" /\ EXT_pos \notin DOMAIN fs.files
       THEN /\ call' = Call(op, lazy, TRUE, read_tracking(self, fs), <<>>)
            /\ UNCHANGED frame
       ELSE /\ frame' = Frame(op, lazy, file_list(op, fs), "loop", NoValue, <<>>)
            /\ UNCHANGED call
    /\ UNCHANGED <<fs, self, opened>>
    /\ UNCHANGED byteVars

\* open(name): the with block of the next file is entered
Open ==
    /\ frame # NoValue /\ frame.at = "loop" /\ frame.names # <<>>
    /\ opened' = opened \cup {Head(frame.names)}
    /\ io_log' = Append(io_log, <<"open", Head(frame.names)>>)
    /\ frame' = [frame EXCEPT !.at = "body"]
    /\ UNCHANGED <<fs, self, call>>
    /\ UNCHANGED byteVars

\* the body of the with block runs, the file being open
Body ==
    /\ frame # NoValue /\ frame.at = "body"
    /\ frame' = [frame EXCEPT
          !.at = "exit",
          !.pending = with_body(frame.op, frame.lazy, self, fs,
                                Head(frame.names)).out]
    /\ self' = with_body(frame.op, frame.lazy, self, fs, Head(frame.names)).self
    /\ UNCHANGED <<fs, call, opened, io_log>>
    /\ UNCHANGED byteVars

\* the with block is left; what its body raised is raised by the method
WithExit ==
    /\ frame # NoValue /\ frame.at = "exit"
    /\ opened' = with_exit(opened, Head(frame.names), frame.pending)
    /\ io_log' = IF Head(frame.names) \in opened'
                 THEN io_log
                 ELSE Append(io_log, <<"close", Head(frame.names)>>)
    /\ IF frame.pending.kind = "exc"
       THEN Finish(frame.pending, self)
       ELSE /\ frame' = [frame EXCEPT !.at = "after"]
            /\ UNCHANGED <<self, call>>
    /\ UNCHANGED fs
    /\ UNCHANGED byteVars

\* the statements after the with block, up to the next iteration
After ==
    /\ frame # NoValue /\ frame.at = "after"
    /\ LET name == Head(frame.names)
       IN IF after_with(frame.op, self, fs, name, frame.pending.val).out.kind = "exc"
          THEN Finish(after_with(frame.op, self, fs, name, frame.pending.val).out,
                      after_with(frame.op, self, fs, name, frame.pending.val).self)
          ELSE /\ frame' = [frame EXCEPT
                     !.at = "loop",
                     !.names = Tail(@),
                     !.pending = NoValue,
                     !.acc = Append(@, after_with(frame.op, self, fs, name,
                                                  frame.pending.val).out.val)]
               /\ self' = after_with(frame.op, self, fs, name,
                                     frame.pending.val).self
               /\ UNCHANGED call
    /\ UNCHANGED <<fs, opened, io_log>>
    /\ UNCHANGED byteVars

\* the loop is over: the method returns
Return ==
    /\ frame # NoValue /\ frame.at = "loop" /\ frame.names = <<>>
    /\ Finish(CASE frame.op = "__init__" -> Returned(PyNone)
                [] frame.op = "read_tracking" -> Returned(frame.acc[1])
                [] OTHER -> Returned(frame.acc),
              self)
    /\ UNCHANGED <<fs, opened, io_log>>
    /\ UNCHANGED byteVars

\* ------------------------------------------------------- damaged files

\* what can be wrong with a companion file: the sentinel is missing, the
\* trailer does not match, a parameter is missing, or a parameter was written
\* without its value, which parse_params holds as None
Faults == {"ok", "no_sentinel", "bad_trailer", "missing_param", "mistyped_param"}

Faulty(f, fault, missing_key, mistyped_key) ==
    CASE fault = "ok" -> f
      [] fault = "no_sentinel" -> [f EXCEPT !.sentinel = FALSE]
      [] fault = "bad_trailer" -> [f EXCEPT !.trailer_ok = FALSE]
      [] fault = "missing_param" -> [f EXCEPT !.params = Without(@, missing_key)]
      [] fault = "mistyped_param" -> [f EXCEPT !.params[mistyped_key] = PyNone]

\* channel group files of one channel, damaged or not
FaultyGroupSets ==
    UNION { [S -> { Faulty(GroupFile(1), x, "num_chans", "timebase") :
                      x \in Faults }] :
              S \in SubsetsUpTo(GroupSuffixPool, MaxGroupFiles) }

\* analog files, damaged or not, beside two sound groups of four channels
FaultyAnalogSets ==
    UNION { { (<<"1">> :> GroupFile(4)) @@ (<<"2">> :> GroupFile(4))
              @@ [e \in E |-> Faulty(AnalogFile(e), x[e],
                                     "bytes_per_sample", "sample_rate")] :
                x \in [E -> Faults] } :
              E \in SubsetsUpTo(AnalogExtPool, MaxAnalogFiles) }

\* a tracking file, damaged or not
FaultyPosSets ==
    { EXT_pos :> Faulty(PosFile(PosRecords(1)), x,
                        "num_pos_samples", "sample_rate") : x \in Faults }

FileDatasets ==
    UNION { Dataset(RootFile(1), c) :
              c \in FaultyGroupSets \cup FaultyAnalogSets \cup FaultyPosSets }

Init_Files ==
    /\ fs \in FileDatasets
    /\ self = NoValue
    /\ call = NoValue
    /\ frame = NoValue /\ opened = {} /\ io_log = <<>>
    /\ fh_data = <<>> /\ fh_pos = 0 /\ header = <<>> /\ remaining_data = <<>>
    /\ pc = "idle" /\ out = NoValue

Next_Files ==
    \/ \E extension \in {".set", ".pos"} : BeginInit(extension)
    \/ \E op \in {"read_spiketrain", "read_tracking", "read_analogsignal"},
          lazy \in BOOLEAN : BeginRead(op, lazy)
    \/ Open
    \/ Body
    \/ WithExit
    \/ After
    \/ Return

SpecFiles == Init_Files /\ [][Next_Files]_vars

\* C11: while the catalog is built and while the spike, tracking and analog
\* decoders run, at most one file is open; a file that was opened is closed
\* before the next one is opened and before the method returns or raises,
\* whether its decoding ended, the sentinel was missing, the trailer did not
\* match, or a parameter was missing or mistyped.
C11_OneFileOpenThenClosed ==
    /\ Cardinality(opened) <= 1
    /\ frame = NoValue => opened = {}
    /\ (frame # NoValue /\ frame.at \in {"loop", "after"}) => opened = {}
    /\ (frame # NoValue /\ frame.at \in {"body", "exit"})
          => opened = {Head(frame.names)}
    /\ \A i \in 1..Len(io_log) :
          /\ io_log[i][1] = (IF i % 2 = 1 THEN "open" ELSE "close")
          /\ i % 2 = 0 => io_log[i][2] = io_log[i - 1][2]

\* a method has raised in the middle of its second file, after opening and
\* closing both
C11_Witness ==
    /\ frame = NoValue /\ call # NoValue /\ call.out.kind = "exc"
    /\ Len(io_log) = 4
    /\ io_log[3][1] = "open" /\ io_log[4] = <<"close", io_log[3][2]>>
    /\ opened = {}

====
